---- MODULE Spec2Model ----
(***************************************************************************)
(* Format-preserving DOCX translation pipeline:                            *)
(*   style_manager.py   StyleManager.get_style_rpr                         *)
(*   docx_processor.py  _compare_rpr_elements, select_consistent_style,    *)
(*                      parse_paragraph_structure,                         *)
(*                      reconstruct_translated_paragraph, process_xml_part *)
(*                      materialize_styles_from_style_defs                 *)
(*   translation.py     _translate_paragraph, llm_translate_concurrent     *)
(*                                                                         *)
(* Optional values (Python None / a value) are sequences of length 0 / 1.  *)
(* An XML element with children is a sequence of records; text is a        *)
(* sequence of tokens, the separator and the placeholder being one token   *)
(* each.                                                                   *)
(***************************************************************************)
EXTENDS Integers, Sequences, FiniteSets, TLC

VARIABLES
    styles,        \* StyleManager._styles : style id -> [based_on, rPr_xml]
    styleQuery,    \* argument of the last get_style_rpr call (optional)
    styleResult,   \* value returned by the last get_style_rpr call (optional rPr)
    p_node,        \* the paragraph handed to parse_paragraph_structure: its children
    para_data,     \* the dict parse_paragraph_structure returned (optional)
    translated,    \* the text the translator returned for the blob (optional of optional)
    rebuilt,       \* what reconstruct_translated_paragraph produced (optional)
    ppc,           \* the paragraph's position in the pipeline
    xml_content,   \* process_xml_part: the part it was given, the children of its root
    root,          \* the parsed tree, mutated in place
    all_p_data,    \* all_p_data_with_parent
    translated_full_texts,  \* what translate_function returned (optional)
    loop_i,        \* index of the reconstruction loop
    returned,      \* the value process_xml_part returned (optional)
    part_pc,       \* position inside process_xml_part
    para_data_list,   \* llm_translate_concurrent: the blobs of the paragraphs it was given
    real_api_kwargs,  \* the keyword arguments: max_retries and max_workers
    results,       \* the result list, one slot per paragraph
    writes,        \* how many times each slot of results was assigned
    tasks,         \* index -> the _translate_paragraph call submitted for it
    batch_pc,      \* position inside llm_translate_concurrent
    batch_ret,     \* the list llm_translate_concurrent returned (optional)
    m_input,       \* materialize_styles_from_style_defs: the paragraphs before the first pass
    m_root,        \* the paragraphs of the tree, mutated in place
    m_first,       \* the paragraphs as the first pass left them (optional)
    m_passes,      \* the number of passes made
    c_rprs,        \* _compare_rpr_elements: the optional w:rPr elements to compare
    c_equal        \* what each comparison of two of them returned (optional)

styleVars == <<styles, styleQuery, styleResult>>
paraVars == <<p_node, para_data, translated, rebuilt, ppc>>
partVars == <<xml_content, root, all_p_data, translated_full_texts, loop_i, returned, part_pc>>
batchVars == <<para_data_list, real_api_kwargs, results, writes, tasks, batch_pc, batch_ret>>
matVars == <<m_input, m_root, m_first, m_passes>>
cmpVars == <<c_rprs, c_equal>>
vars == <<styles, styleQuery, styleResult, p_node, para_data, translated, rebuilt, ppc,
          xml_content, root, all_p_data, translated_full_texts, loop_i, returned, part_pc,
          para_data_list, real_api_kwargs, results, writes, tasks, batch_pc, batch_ret,
          m_input, m_root, m_first, m_passes, c_rprs, c_equal>>

None == <<>>
Some(x) == <<x>>
IsNone(o) == Len(o) = 0
Val(o) == o[1]

RECURSIVE SeqToSet(_)
SeqToSet(s) == IF Len(s) = 0 THEN {} ELSE {Head(s)} \cup SeqToSet(Tail(s))

(***************************************************************************)
(* StyleManager                                                            *)
(***************************************************************************)

\* largest size a style declares (the w:val of w:sz)
MaxVal == 2

\* the w:val a style gives w:i, 0 standing for no w:i at all
ItalicVals == 0..2

\* style identifiers present in styles.xml, and one the table does not hold
StyleIds == {"A", "B", "C"}
UnknownId == "Z"

\* run-property tags a style may declare
StyleTags == <<"i", "sz">>

\* a child of a w:rPr element: its tag, its attributes and the number of its children
Prop(tag, attrs, kids) == [tag |-> tag, attrs |-> attrs, kids |-> kids]

\* a w:rPr element: its children in document order
RprOf(iv, szv) ==
    (IF iv = 0 THEN <<>> ELSE <<Prop("i", {<<"val", iv>>}, 0)>>)
    \o (IF szv = 0 THEN <<>> ELSE <<Prop("sz", {<<"val", szv>>}, 0)>>)

StyleRprs == {None} \cup {Some(RprOf(iv, szv)) : iv \in ItalicVals, szv \in 0..MaxVal}

StyleInfos == [based_on : {None} \cup {Some(s) : s \in StyleIds \cup {UnknownId}},
               rPr_xml  : StyleRprs]

\* Element.find(tag): index of the first child with the tag, 0 when there is none
FindTag(rpr, tag) ==
    IF \E k \in 1..Len(rpr) : rpr[k].tag = tag
    THEN CHOOSE k \in 1..Len(rpr) : rpr[k].tag = tag /\ \A m \in 1..(k-1) : rpr[m].tag # tag
    ELSE 0

RemoveAt(s, k) == SubSeq(s, 1, k-1) \o SubSeq(s, k+1, Len(s))

\* one iteration of the inner loop: drop the existing child of that tag, append the new one
PutChild(final, child) ==
    LET k == FindTag(final, child.tag)
    IN  Append(IF k = 0 THEN final ELSE RemoveAt(final, k), child)

RECURSIVE PutChildren(_, _)
PutChildren(final, rpr) ==
    IF Len(rpr) = 0 THEN final ELSE PutChildren(PutChild(final, Head(rpr)), Tail(rpr))

\* the merge loop over rpr_stack, in list order
RECURSIVE FoldStack(_, _)
FoldStack(final, stack) ==
    IF Len(stack) = 0 THEN final ELSE FoldStack(PutChildren(final, Head(stack)), Tail(stack))

\* the while loop with the visited test made after the style was read
RECURSIVE WalkChainLate(_, _, _, _)
WalkChainLate(tbl, cur, visited, stack) ==
    IF IsNone(cur) THEN stack
    ELSE IF Val(cur) \notin DOMAIN tbl THEN stack
    ELSE LET info == tbl[Val(cur)]
             stack2 == IF IsNone(info.rPr_xml) THEN stack ELSE Append(stack, Val(info.rPr_xml))
         IN  IF Val(cur) \in visited THEN stack2
             ELSE WalkChainLate(tbl, info.based_on, visited \cup {Val(cur)}, stack2)

\* the while loop: follows based_on, appending each style's own rPr to rpr_stack
RECURSIVE WalkChain(_, _, _, _)
WalkChain(tbl, cur, visited, stack) ==
    IF IsNone(cur) \/ Val(cur) \in visited THEN stack
    ELSE IF Val(cur) \notin DOMAIN tbl THEN stack
    ELSE LET info == tbl[Val(cur)]
         IN  WalkChain(tbl, info.based_on, visited \cup {Val(cur)},
                       IF IsNone(info.rPr_xml) THEN stack
                       ELSE Append(stack, Val(info.rPr_xml)))

\* None also when the merged w:rPr has no child
get_style_rpr_falsy(tbl, style_id) ==
    LET rpr_stack == WalkChain(tbl, Some(style_id), {}, <<>>)
    IN  IF Len(rpr_stack) = 0 \/ Len(FoldStack(<<>>, rpr_stack)) = 0 THEN None
        ELSE Some(FoldStack(<<>>, rpr_stack))

\* the style's own w:rPr only, the chain not followed
get_style_rpr_own(tbl, style_id) ==
    LET rpr_stack == WalkChain(tbl, Some(style_id), {}, <<>>)
    IN  IF Len(rpr_stack) = 0 THEN None ELSE Some(Head(rpr_stack))

get_style_rpr_late(tbl, style_id) ==
    LET rpr_stack == WalkChainLate(tbl, Some(style_id), {}, <<>>)
    IN  IF Len(rpr_stack) = 0 THEN None ELSE Some(FoldStack(<<>>, rpr_stack))

get_style_rpr(tbl, style_id) ==
    LET rpr_stack == WalkChain(tbl, Some(style_id), {}, <<>>)
    IN  IF Len(rpr_stack) = 0 THEN None ELSE Some(FoldStack(<<>>, rpr_stack))

\* the w:val of the w:sz child of the resolved w:rPr (optional)
get_size_by_style_id(tbl, style_id) ==
    LET final_rpr_elem == get_style_rpr(tbl, style_id)
    IN  IF IsNone(final_rpr_elem) THEN None
        ELSE LET k == FindTag(Val(final_rpr_elem), "sz")
             IN  IF k = 0 THEN None
                 ELSE LET vals == {a[2] : a \in {b \in Val(final_rpr_elem)[k].attrs : b[1] = "val"}}
                      IN  IF vals = {} THEN None ELSE Some(CHOOSE v \in vals : TRUE)

\* the paragraph pipeline before any paragraph was handed to it
ParaIdle ==
    /\ p_node = <<>>
    /\ para_data = None
    /\ translated = None
    /\ rebuilt = None
    /\ ppc = "idle"

\* process_xml_part before it was called
PartIdle ==
    /\ xml_content = <<>>
    /\ root = <<>>
    /\ all_p_data = <<>>
    /\ translated_full_texts = None
    /\ loop_i = 0
    /\ returned = None
    /\ part_pc = "idle"

\* llm_translate_concurrent before it was called
BatchIdle ==
    /\ para_data_list = <<>>
    /\ real_api_kwargs = [max_retries |-> 0, max_workers |-> 0]
    /\ results = <<>>
    /\ writes = <<>>
    /\ tasks = <<>>
    /\ batch_pc = "idle"
    /\ batch_ret = None

\* materialize_styles_from_style_defs before it was called
MatIdle ==
    /\ m_input = <<>>
    /\ m_root = <<>>
    /\ m_first = None
    /\ m_passes = 0

\* _compare_rpr_elements before it was given anything to compare
CmpIdle ==
    /\ c_rprs = <<>>
    /\ c_equal = None

StyleInit ==
    /\ styles \in [StyleIds -> StyleInfos]
    /\ styleQuery = None
    /\ styleResult = None
    /\ ParaIdle
    /\ PartIdle
    /\ BatchIdle
    /\ MatIdle
    /\ CmpIdle

GetStyleRpr(id) ==
    /\ IsNone(styleQuery)
    /\ styleQuery' = Some(id)
    /\ styleResult' = get_style_rpr(styles, id)
    /\ UNCHANGED <<styles, paraVars, partVars, batchVars, matVars, cmpVars>>

StyleNext == \E id \in StyleIds \cup {UnknownId} : GetStyleRpr(id)

StyleSpec == StyleInit /\ [][StyleNext]_vars

(***************************************************************************)
(* Properties of style resolution                                          *)
(***************************************************************************)

\* the style ids the walk of get_style_rpr visits, leaf first
RECURSIVE ChainIds(_, _, _)
ChainIds(tbl, cur, seen) ==
    IF IsNone(cur) \/ Val(cur) \in SeqToSet(seen) \/ Val(cur) \notin DOMAIN tbl THEN seen
    ELSE ChainIds(tbl, tbl[Val(cur)].based_on, Append(seen, Val(cur)))

Declares(tbl, s, tag) == ~IsNone(tbl[s].rPr_xml) /\ FindTag(Val(tbl[s].rPr_xml), tag) # 0
DeclaredVal(tbl, s, tag) == Val(tbl[s].rPr_xml)[FindTag(Val(tbl[s].rPr_xml), tag)].attrs

\* tag -> attributes pairs of a w:rPr element, child order forgotten
AsMap(rpr) == {<<rpr[k].tag, rpr[k].attrs>> : k \in 1..Len(rpr)}

\* C1: for every key that more than one style of the based_on chain declares,
\* the resolved set carries the declaration of the leaf-most declaring style.
C1_ChildOverridesAncestors ==
    ~IsNone(styleQuery) =>
        LET ch == ChainIds(styles, styleQuery, <<>>)
        IN  \A t \in SeqToSet(StyleTags) :
              LET ds == {k \in 1..Len(ch) : Declares(styles, ch[k], t)}
              IN  Cardinality(ds) > 1 =>
                    LET leaf == CHOOSE k \in ds : \A m \in ds : k <= m
                    IN  /\ ~IsNone(styleResult)
                        /\ <<t, DeclaredVal(styles, ch[leaf], t)>> \in AsMap(Val(styleResult))

\* C2: on a 3-level chain A -> B -> C, get_style_rpr(A) equals get_style_rpr(B)
\* overlaid, key by key, with A's own declarations.
C2_ResolutionAssociative ==
    ~IsNone(styleQuery) =>
        LET ch == ChainIds(styles, styleQuery, <<>>)
        IN  (Len(ch) = 3 /\ IsNone(styles[ch[3]].based_on)) =>
              LET base == get_style_rpr(styles, ch[2])
                  own  == styles[ch[1]].rPr_xml
                  expected == IF IsNone(base) /\ IsNone(own) THEN None
                              ELSE Some(PutChildren(IF IsNone(base) THEN <<>> ELSE Val(base),
                                                    IF IsNone(own) THEN <<>> ELSE Val(own)))
              IN  /\ IsNone(styleResult) <=> IsNone(expected)
                  /\ ~IsNone(expected) => AsMap(Val(styleResult)) = AsMap(Val(expected))

(***************************************************************************)
(* Paragraphs                                                              *)
(***************************************************************************)

\* most children a paragraph of the model has
MaxChildren == 3

SEGMENT_SEPARATOR == "SEG"
PLACEHOLDER_TAG == "PH"

\* a child of w:p.  kind is its tag; rPr and t are the w:rPr and the text of
\* the w:t of a run; special says that a run holds a fldChar, instrText,
\* drawing, object or pict; space is xml:space="preserve" on the w:t; runs
\* are the w:r descendants of a hyperlink.
Node(kind, rPr, t, special, space, runs) ==
    [kind |-> kind, rPr |-> rPr, t |-> t, special |-> special, space |-> space, runs |-> runs]

Run(rPr, t) == Node("r", rPr, t, FALSE, FALSE, <<>>)
SpecialRun(rPr) == Node("r", rPr, None, TRUE, FALSE, <<>>)
Opaque(kind) == Node(kind, None, None, FALSE, FALSE, <<>>)
Hyperlink(runs) == Node("hyperlink", None, None, FALSE, FALSE, runs)

RprHint == Some(<<Prop("rFonts", {<<"hint", "eastAsia">>}, 0)>>)
RprBold == Some(<<Prop("b", {}, 0)>>)
RprBoldHint == Some(<<Prop("rFonts", {<<"hint", "eastAsia">>}, 0), Prop("b", {}, 0)>>)

PlainRuns == {Run(None, Some(<<"a">>)), Run(RprHint, Some(<<"a">>)), Run(RprBold, Some(<<"a">>)),
              Run(RprBoldHint, Some(<<"a">>)),
              Run(None, Some(<<SEGMENT_SEPARATOR>>)), Run(None, None)}
SpecialRuns == {SpecialRun(None), SpecialRun(RprBold)}
OpaqueNodes == {Opaque("oMath"), Opaque("drawing")}
Hyperlinks == {Hyperlink(<<Run(None, Some(<<"a">>))>>),
               Hyperlink(<<Run(None, Some(<<"a">>)), Run(RprBold, Some(<<"a">>))>>)}
UnknownNodes == {Opaque("bookmarkStart")}
PPr == Opaque("pPr")

BodyKids == PlainRuns \cup SpecialRuns \cup OpaqueNodes \cup Hyperlinks \cup UnknownNodes

\* a paragraph: an optional leading w:pPr, then at most MaxChildren children
Paragraphs ==
    LET bodies == UNION {[1..n -> BodyKids] : n \in 0..MaxChildren}
    IN  bodies \cup {<<PPr>> \o b : b \in bodies}

(***************************************************************************)
(* _compare_rpr_elements                                                   *)
(***************************************************************************)

\* the dict {tag: {attr: value}} as a set of <<tag, attrs>> with one entry per tag
RECURSIVE ExtractLoop(_, _)
ExtractLoop(rpr, attrs) ==
    IF Len(rpr) = 0 THEN attrs
    ELSE LET child == Head(rpr)
             value == IF child.tag = "rFonts"
                      THEN {a \in child.attrs : a[1] # "hint"}
                      ELSE child.attrs
         IN  IF child.tag = "rFonts" /\ value = {} /\ child.kids = 0
             THEN ExtractLoop(Tail(rpr), attrs)
             ELSE ExtractLoop(Tail(rpr),
                              {e \in attrs : e[1] # child.tag} \cup {<<child.tag, value>>})

\* the dict without the skip of a w:rFonts that the hint left empty
extract_keep_fonts(rpr) ==
    {<<rpr[k].tag, IF rpr[k].tag = "rFonts" THEN {a \in rpr[k].attrs : a[1] # "hint"}
                   ELSE rpr[k].attrs>> : k \in 1..Len(rpr)}

_extract_normalized_attributes(rpr) == ExtractLoop(rpr, {})

_is_empty_rpr_after_normalization(rpr) ==
    IF IsNone(rpr) THEN TRUE ELSE _extract_normalized_attributes(Val(rpr)) = {}

\* the comparison without the normalization: the elements as they are
compare_rpr_raw(rpr1, rpr2) == rpr1 = rpr2

\* with one element absent, the emptiness test applied to rpr1 whichever is absent
compare_first_arg(rpr1, rpr2) ==
    IF IsNone(rpr1) /\ IsNone(rpr2) THEN TRUE
    ELSE IF IsNone(rpr1) \/ IsNone(rpr2)
         THEN _is_empty_rpr_after_normalization(rpr1)
         ELSE _extract_normalized_attributes(Val(rpr1)) = _extract_normalized_attributes(Val(rpr2))

_compare_rpr_elements(rpr1, rpr2) ==
    IF IsNone(rpr1) /\ IsNone(rpr2) THEN TRUE
    ELSE IF IsNone(rpr1) \/ IsNone(rpr2)
         THEN _is_empty_rpr_after_normalization(IF ~IsNone(rpr1) THEN rpr1 ELSE rpr2)
         ELSE _extract_normalized_attributes(Val(rpr1)) = _extract_normalized_attributes(Val(rpr2))

\* None when the runs disagree, else a copy of the first run's rPr (an empty
\* w:rPr element when the first run has none)
select_consistent_style(runs) ==
    IF Len(runs) = 0 THEN None
    ELSE IF \E k \in 2..Len(runs) : ~_compare_rpr_elements(runs[1].rPr, runs[k].rPr) THEN None
    ELSE IF ~IsNone(runs[1].rPr) THEN Some(Val(runs[1].rPr))
    ELSE Some(<<>>)

(***************************************************************************)
(* parse_paragraph_structure                                               *)
(***************************************************************************)

Segment(type, original_text, common_rPr, original_runs, original_node, is_math) ==
    [type |-> type, original_text |-> original_text, common_rPr |-> common_rPr,
     original_runs |-> original_runs, original_node |-> original_node, is_math |-> is_math]

RECURSIVE Concat(_)
Concat(parts) == IF Len(parts) = 0 THEN <<>> ELSE Head(parts) \o Concat(Tail(parts))

\* text_for_llm_parts after one more segment text: a separator first unless the list is empty
AddPart(parts, text) ==
    (IF Len(parts) # 0 THEN Append(parts, <<SEGMENT_SEPARATOR>>) ELSE parts) \o <<text>>

\* the inner while loop: extends the group with the following w:r children
\* for as long as select_consistent_style accepts the extended group
RECURSIVE ExtendGroup(_, _, _)
ExtendGroup(children, group, j) ==
    IF j > Len(children) THEN <<group, j>>
    ELSE IF children[j].kind = "r"
         THEN IF ~IsNone(select_consistent_style(Append(group, children[j])))
              THEN ExtendGroup(children, Append(group, children[j]), j + 1)
              ELSE <<group, j>>
         ELSE <<group, j>>

\* common_rPr of a finished group
GroupRpr(group) ==
    IF Len(group) = 1 THEN group[1].rPr
    ELSE LET c == select_consistent_style(group)
         IN  IF ~IsNone(c) THEN c
             ELSE IF ~IsNone(group[1].rPr) THEN group[1].rPr ELSE Some(<<>>)

\* the texts of the runs that have a w:t with text, in order
RECURSIVE RunTexts(_)
RunTexts(runs) ==
    IF Len(runs) = 0 THEN <<>>
    ELSE (IF IsNone(Head(runs).t) THEN <<>> ELSE <<Val(Head(runs).t)>>) \o RunTexts(Tail(runs))

\* the inner runs of a hyperlink whose w:t has non-empty text
RECURSIVE TextRuns(_)
TextRuns(runs) ==
    IF Len(runs) = 0 THEN <<>>
    ELSE (IF ~IsNone(Head(runs).t) /\ Len(Val(Head(runs).t)) > 0 THEN <<Head(runs)>> ELSE <<>>)
         \o TextRuns(Tail(runs))

HyperlinkRpr(group) ==
    IF Len(group) = 0 THEN None
    ELSE LET c == select_consistent_style(group)
         IN  IF ~IsNone(c) THEN c
             ELSE IF ~IsNone(group[1].rPr) THEN group[1].rPr ELSE Some(<<>>)

IsOpaqueTag(kind) == kind \in {"oMath", "oMathPara", "drawing", "object"}

\* the outer while loop from child i on
RECURSIVE ParseLoop(_, _, _, _)
ParseLoop(children, i, segs, parts) ==
    IF i > Len(children) THEN [segments |-> segs, parts |-> parts]
    ELSE LET c == children[i] IN
         IF c.kind = "r" THEN
             IF c.special
             THEN ParseLoop(children, i + 1,
                            Append(segs, Segment("non_text_node", <<>>, None, <<>>, Some(c), FALSE)),
                            AddPart(parts, <<PLACEHOLDER_TAG>>))
             ELSE LET g == ExtendGroup(children, <<c>>, i + 1)
                      merged_text == Concat(RunTexts(g[1]))
                  IN  ParseLoop(children, g[2],
                                Append(segs, Segment("text_run_group", merged_text, GroupRpr(g[1]),
                                                     g[1], None, FALSE)),
                                AddPart(parts, merged_text))
         ELSE IF IsOpaqueTag(c.kind)
         THEN ParseLoop(children, i + 1,
                        Append(segs, Segment("non_text_node", <<>>, None, <<>>, Some(c),
                                             c.kind \in {"oMath", "oMathPara"})),
                        AddPart(parts, <<PLACEHOLDER_TAG>>))
         ELSE IF c.kind = "hyperlink"
         THEN LET group == TextRuns(c.runs)
                  text  == Concat(RunTexts(group))
              IN  ParseLoop(children, i + 1,
                            Append(segs, Segment("hyperlink", text, HyperlinkRpr(group), <<>>,
                                                 Some(c), FALSE)),
                            AddPart(parts, text))
         ELSE ParseLoop(children, i + 1, segs, parts)

parse_paragraph_structure(p) ==
    LET r == ParseLoop(p, 1, <<>>, <<>>)
    IN  [p_node |-> p,
         segments |-> r.segments,
         full_text_for_llm |-> Concat(r.parts),
         segment_separator |-> SEGMENT_SEPARATOR]

(***************************************************************************)
(* reconstruct_translated_paragraph                                        *)
(***************************************************************************)

\* str.split(separator): the pieces between the separator tokens, at least one
RECURSIVE SplitLoop(_, _, _)
SplitLoop(text, cur, pieces) ==
    IF Len(text) = 0 THEN Append(pieces, cur)
    ELSE IF Head(text) = SEGMENT_SEPARATOR
         THEN SplitLoop(Tail(text), <<>>, Append(pieces, cur))
         ELSE SplitLoop(Tail(text), Append(cur, Head(text)), pieces)

Split(text) == SplitLoop(text, <<>>, <<>>)

\* text is non-empty and starts or ends with a space
NeedsPreserve(text) == Len(text) > 0 /\ (text[1] = " " \/ text[Len(text)] = " ")

\* index of the first inner run that has a w:t, 0 when there is none
FirstT(runs) ==
    IF \E k \in 1..Len(runs) : ~IsNone(runs[k].t)
    THEN CHOOSE k \in 1..Len(runs) : ~IsNone(runs[k].t) /\ \A m \in 1..(k-1) : IsNone(runs[m].t)
    ELSE 0

\* the piece of the split that belongs to segment i, or the recorded fallback
SegmentText(seg, i, pieces) ==
    IF i <= Len(pieces) THEN pieces[i]
    ELSE IF seg.type = "non_text_node" THEN <<PLACEHOLDER_TAG>> ELSE seg.original_text

\* the hyperlink branch raises AttributeError at r_elem.getparent() as soon as
\* a second inner run is met: xml.etree elements have no getparent
HyperlinkRaises(seg) ==
    /\ seg.type = "hyperlink"
    /\ FirstT(Val(seg.original_node).runs) # 0
    /\ Len(Val(seg.original_node).runs) > 1

\* the node one segment contributes to the new paragraph
RebuildSegment(seg, text) ==
    IF seg.type = "text_run_group"
    THEN Node("r", seg.common_rPr, Some(text), FALSE, NeedsPreserve(text), <<>>)
    ELSE IF seg.type = "non_text_node" THEN Val(seg.original_node)
    ELSE LET h == Val(seg.original_node)
             k == FirstT(h.runs)
         IN  IF k = 0 THEN h
             ELSE [h EXCEPT !.runs[k].t = Some(text),
                            !.runs[k].space = h.runs[k].space \/ NeedsPreserve(text)]

RECURSIVE RebuildLoop(_, _, _, _)
RebuildLoop(segments, i, pieces, new_p) ==
    IF i > Len(segments) THEN [raised |-> FALSE, node |-> new_p]
    ELSE IF HyperlinkRaises(segments[i]) THEN [raised |-> TRUE, node |-> <<>>]
    ELSE RebuildLoop(segments, i + 1, pieces,
                     Append(new_p, RebuildSegment(segments[i], SegmentText(segments[i], i, pieces))))

\* translated_full_text is an optional text: None stands for Python None
reconstruct_translated_paragraph(data, translated_full_text) ==
    LET text == IF IsNone(translated_full_text) THEN data.full_text_for_llm
                ELSE Val(translated_full_text)
        pPrs == SelectSeq(data.p_node, LAMBDA c : c.kind = "pPr")
        start == IF Len(pPrs) > 0 THEN <<Head(pPrs)>> ELSE <<>>
    IN  RebuildLoop(data.segments, 1, Split(text), start)

(***************************************************************************)
(* The translator, seen from the paragraph: any of a few answers           *)
(***************************************************************************)

RECURSIVE MapTokens(_, _, _)
MapTokens(text, from, to) ==
    IF Len(text) = 0 THEN <<>>
    ELSE <<IF Head(text) = from THEN to ELSE Head(text)>> \o MapTokens(Tail(text), from, to)

\* the text without its first separator token
RECURSIVE DropFirstSeparator(_)
DropFirstSeparator(text) ==
    IF Len(text) = 0 THEN <<>>
    ELSE IF Head(text) = SEGMENT_SEPARATOR THEN Tail(text)
    ELSE <<Head(text)>> \o DropFirstSeparator(Tail(text))

\* the tokens of the text in the opposite order
RECURSIVE Reverse(_)
Reverse(text) == IF Len(text) = 0 THEN <<>> ELSE Append(Reverse(Tail(text)), Head(text))

Translations(blob) ==
    LET tr == MapTokens(blob, "a", "x")
    IN  {Some(blob), Some(tr), Some(DropFirstSeparator(tr)),
         Some(MapTokens(tr, PLACEHOLDER_TAG, "x")), Some(Reverse(tr)), Some(<<>>), None}

(***************************************************************************)
(* One paragraph through the pipeline                                      *)
(***************************************************************************)

StyleIdle ==
    /\ styles = [s \in StyleIds |-> [based_on |-> None, rPr_xml |-> None]]
    /\ styleQuery = None
    /\ styleResult = None

ParaInit ==
    /\ StyleIdle
    /\ PartIdle
    /\ BatchIdle
    /\ MatIdle
    /\ CmpIdle
    /\ p_node \in Paragraphs
    /\ para_data = None
    /\ translated = None
    /\ rebuilt = None
    /\ ppc = "unsegmented"

Parse ==
    /\ ppc = "unsegmented"
    /\ para_data' = Some(parse_paragraph_structure(p_node))
    /\ ppc' = "segmented"
    /\ UNCHANGED <<styleVars, batchVars, matVars, cmpVars, partVars, p_node, translated, rebuilt>>

Translate ==
    /\ ppc = "segmented"
    /\ \E t \in Translations(Val(para_data).full_text_for_llm) : translated' = Some(t)
    /\ ppc' = "translated"
    /\ UNCHANGED <<styleVars, batchVars, matVars, cmpVars, partVars, p_node, para_data, rebuilt>>

Reconstruct ==
    /\ ppc = "translated"
    /\ LET r == reconstruct_translated_paragraph(Val(para_data), Val(translated))
       IN  /\ rebuilt' = IF r.raised THEN None ELSE Some(r.node)
           /\ ppc' = IF r.raised THEN "raised" ELSE "reconstructed"
    /\ UNCHANGED <<styleVars, batchVars, matVars, cmpVars, partVars, p_node, para_data, translated>>

ParaNext == Parse \/ Translate \/ Reconstruct

ParaSpec == ParaInit /\ [][ParaNext]_vars

(***************************************************************************)
(* process_xml_part (materialize_styles off)                               *)
(***************************************************************************)

\* most paragraphs a part of the model has
MaxParas == 2

\* a child of the root: a w:p with its children, or another element
BodyNode(id, tag, kids) == [id |-> id, tag |-> tag, kids |-> kids]

PartParas == {<<Run(None, Some(<<"a">>))>>,
              <<Run(None, Some(<<"a">>)), Run(RprBold, Some(<<"a">>))>>,
              <<Run(None, Some(<<" ">>))>>,
              <<Opaque("oMath")>>,
              <<Hyperlink(<<Run(None, Some(<<"a">>))>>)>>,
              <<Hyperlink(<<Run(None, Some(<<"a">>)), Run(RprBold, Some(<<"a">>))>>)>>}

\* the parts: some paragraphs, then possibly a w:sectPr; ids are positions
Parts ==
    LET paras == UNION {[1..n -> PartParas] : n \in 1..MaxParas}
        body(ps) == [k \in 1..Len(ps) |-> BodyNode(k, "p", ps[k])]
    IN  {body(ps) : ps \in paras}
        \cup {Append(body(ps), BodyNode(Len(ps) + 1, "sectPr", <<>>)) : ps \in paras}

\* str.strip(): without the leading and trailing white space
RECURSIVE LStrip(_)
LStrip(text) == IF Len(text) > 0 /\ Head(text) = " " THEN LStrip(Tail(text)) ELSE text
RECURSIVE RStrip(_)
RStrip(text) ==
    IF Len(text) > 0 /\ text[Len(text)] = " " THEN RStrip(SubSeq(text, 1, Len(text) - 1)) ELSE text
StripNothing(text) == text
Strip(text) == RStrip(LStrip(text))

\* a run whose w:drawing holds a text box: txbx is the one paragraph of its
\* w:txbxContent, as the children of that paragraph
TextBoxRun(kids) ==
    [kind |-> "r", rPr |-> None, t |-> None, special |-> TRUE, space |-> FALSE,
     runs |-> <<>>, txbx |-> kids]

HasTextBox(c) == "txbx" \in DOMAIN c

\* the root as a parent, and the w:txbxContent of child j of the paragraph id
RootParent == <<0, 0>>
TextBoxParent(id, j) == <<id, j>>

\* the paragraphs findall meets inside the paragraph node, from its child j on
RECURSIVE ExtractInner(_, _, _)
ExtractInner(node, j, acc) ==
    IF j > Len(node.kids) THEN acc
    ELSE IF ~HasTextBox(node.kids[j]) THEN ExtractInner(node, j + 1, acc)
    ELSE LET data == parse_paragraph_structure(node.kids[j].txbx)
         IN  IF Len(Strip(data.full_text_for_llm)) > 0
             THEN ExtractInner(node, j + 1,
                               Append(acc, [data |-> data, p_id |-> 10 * node.id + j,
                                            _index_in_parent |-> 0,
                                            _parent_node |-> TextBoxParent(node.id, j)]))
             ELSE ExtractInner(node, j + 1, acc)

\* the extraction loop over root.findall('.//w:p'), in document order: child
\* k of the root, the paragraphs inside it, then the children after it
RECURSIVE ExtractLoopP(_, _, _)
ExtractLoopP(tree, k, acc) ==
    IF k > Len(tree) THEN acc
    ELSE IF tree[k].tag # "p" THEN ExtractLoopP(tree, k + 1, acc)
    ELSE LET data == parse_paragraph_structure(tree[k].kids)
             own == IF Len(Strip(data.full_text_for_llm)) > 0
                    THEN Append(acc, [data |-> data, p_id |-> tree[k].id,
                                      _index_in_parent |-> k - 1,
                                      _parent_node |-> RootParent])
                    ELSE acc
         IN  ExtractLoopP(tree, k + 1, ExtractInner(tree[k], 1, own))

\* position of the node with that identity among the children, 0 when it is not there
IndexOfId(tree, id) ==
    IF \E k \in 1..Len(tree) : tree[k].id = id
    THEN CHOOSE k \in 1..Len(tree) : tree[k].id = id
    ELSE 0

\* list.insert(index, x) with a 0-based index
InsertAt(seq, index, x) ==
    LET n == IF index > Len(seq) THEN Len(seq) ELSE index
    IN  SubSeq(seq, 1, n) \o <<x>> \o SubSeq(seq, n + 1, Len(seq))

\* the new node put after the last child and not at the recorded index
ReplaceAtEnd(tree, entry, new_kids) ==
    LET pos == IndexOfId(tree, entry.p_id)
    IN  IF pos = 0 THEN tree
        ELSE Append(RemoveAt(tree, pos), BodyNode(0 - entry.p_id, "p", new_kids))

\* parent_node.remove(original_p_node); parent_node.insert(index_in_parent, new_p_node);
\* a ValueError of remove is caught and leaves the parent as it is.  The
\* parent of a paragraph of a text box is the w:txbxContent found at
\* extraction: when the paragraph around it has been replaced by a copy, that
\* parent is no longer in the tree and the tree stays as it is
ReplaceParagraph(tree, entry, new_kids) ==
    IF entry._parent_node = RootParent
    THEN LET pos == IndexOfId(tree, entry.p_id)
         IN  IF pos = 0 THEN tree
             ELSE InsertAt(RemoveAt(tree, pos), entry._index_in_parent,
                           BodyNode(0 - entry.p_id, "p", new_kids))
    ELSE LET pos == IndexOfId(tree, entry._parent_node[1])
             j == entry._parent_node[2]
         IN  IF pos = 0 THEN tree
             ELSE [tree EXCEPT ![pos].kids[j].txbx = new_kids]

\* what translate_function may answer for one blob
PartTranslations(blob) ==
    LET tr == MapTokens(blob, "a", "x")
    IN  {Some(tr), Some(DropFirstSeparator(tr)), Some(<<>>)}

\* bytes ET.fromstring cannot parse
Malformed == <<BodyNode(0, "#malformed", <<>>)>>

\* the outer except clause: the bytes the function was given are returned,
\* whatever the tree has become
OuterHandlerTree(content, tree) == Some(tree)
OuterHandler(content, tree) == Some(content)

PartInit ==
    /\ StyleIdle
    /\ ParaIdle
    /\ BatchIdle
    /\ MatIdle
    /\ CmpIdle
    /\ xml_content \in Parts \cup {Malformed}
    /\ root = <<>>
    /\ all_p_data = <<>>
    /\ translated_full_texts = None
    /\ loop_i = 0
    /\ returned = None
    /\ part_pc = "called"

\* steps 1 to 5: parse the bytes, extract the paragraphs, return early when none is left
PartExtract ==
    /\ part_pc = "called"
    /\ xml_content # Malformed
    /\ root' = xml_content
    /\ all_p_data' = ExtractLoopP(xml_content, 1, <<>>)
    /\ IF Len(all_p_data') = 0
       THEN returned' = Some(root') /\ part_pc' = "done"
       ELSE returned' = returned /\ part_pc' = "extracted"
    /\ UNCHANGED <<styleVars, batchVars, matVars, cmpVars, paraVars, xml_content, translated_full_texts, loop_i>>

\* step 1, ET.fromstring raises ParseError: the outer handler returns the input bytes
PartParseFails ==
    /\ part_pc = "called"
    /\ xml_content = Malformed
    /\ returned' = OuterHandler(xml_content, root)
    /\ part_pc' = "failed"
    /\ UNCHANGED <<styleVars, batchVars, matVars, cmpVars, paraVars, xml_content, root, all_p_data,
                   translated_full_texts, loop_i>>

\* step 6: translate_function answers with one text per paragraph, or one too few
PartTranslate ==
    /\ part_pc = "extracted"
    /\ \E m \in {Len(all_p_data) - 1, Len(all_p_data)} :
         \E texts \in [1..m -> UNION {PartTranslations(all_p_data[k].data.full_text_for_llm) :
                                      k \in 1..Len(all_p_data)}] :
            /\ \A k \in 1..m : texts[k] \in PartTranslations(all_p_data[k].data.full_text_for_llm)
            /\ translated_full_texts' = Some(texts)
    /\ loop_i' = 1
    /\ part_pc' = "rebuilding"
    /\ UNCHANGED <<styleVars, batchVars, matVars, cmpVars, paraVars, xml_content, root, all_p_data, returned>>

\* step 6, translate_function raises: the outer handler returns the input bytes
PartTranslateRaises ==
    /\ part_pc = "extracted"
    /\ returned' = OuterHandler(xml_content, root)
    /\ part_pc' = "failed"
    /\ UNCHANGED <<styleVars, batchVars, matVars, cmpVars, paraVars, xml_content, root, all_p_data, translated_full_texts, loop_i>>

\* step 7, one iteration: an IndexError of translated_full_texts[i] or an
\* exception of reconstruct_translated_paragraph reaches the outer handler
PartRebuildOne ==
    /\ part_pc = "rebuilding"
    /\ loop_i <= Len(all_p_data)
    /\ LET texts == Val(translated_full_texts)
           entry == all_p_data[loop_i]
       IN  IF loop_i > Len(texts)
           THEN /\ returned' = OuterHandler(xml_content, root)
                /\ part_pc' = "failed"
                /\ UNCHANGED <<root, loop_i>>
           ELSE LET r == reconstruct_translated_paragraph(entry.data, texts[loop_i])
                IN  IF r.raised
                    THEN /\ returned' = OuterHandler(xml_content, root)
                         /\ part_pc' = "failed"
                         /\ UNCHANGED <<root, loop_i>>
                    ELSE /\ root' = ReplaceParagraph(root, entry, r.node)
                         /\ loop_i' = loop_i + 1
                         /\ UNCHANGED <<returned, part_pc>>
    /\ UNCHANGED <<styleVars, batchVars, matVars, cmpVars, paraVars, xml_content, all_p_data, translated_full_texts>>

\* step 8: the serialized tree is returned
PartReturn ==
    /\ part_pc = "rebuilding"
    /\ loop_i > Len(all_p_data)
    /\ returned' = Some(root)
    /\ part_pc' = "done"
    /\ UNCHANGED <<styleVars, batchVars, matVars, cmpVars, paraVars, xml_content, root, all_p_data, translated_full_texts, loop_i>>

PartNext == PartParseFails \/ PartExtract \/ PartTranslate \/ PartTranslateRaises \/ PartRebuildOne \/ PartReturn

PartSpec == PartInit /\ [][PartNext]_vars

(***************************************************************************)
(* Properties of segmentation and reconstruction                           *)
(***************************************************************************)

Parsed == ppc \in {"segmented", "translated", "reconstructed", "raised"}
Segments == Val(para_data).segments
Blob == Val(para_data).full_text_for_llm

IsOpaqueRun(c) == c.kind = "r" /\ c.special
IsPlainRun(c) == c.kind = "r" /\ ~c.special
IsNonText(c) == IsOpaqueRun(c) \/ IsOpaqueTag(c.kind)
IsUnknown(c) == c.kind \notin {"r", "hyperlink", "oMath", "oMathPara", "drawing", "object"}

\* the children of the rebuilt paragraph after the copied w:pPr
RebuiltBody ==
    LET n == Val(rebuilt)
    IN  IF Len(SelectSeq(p_node, LAMBDA c : c.kind = "pPr")) > 0 THEN Tail(n) ELSE n

Count(text, token) == Cardinality({k \in 1..Len(text) : text[k] = token})

\* C3: a run holding a field char, instruction text, drawing, object or picture
\* is a non_text_node segment of its own and never one of the original_runs
\* of a text_run_group.
C3_OpaqueRunNeverMerged ==
    Parsed =>
        /\ \A k \in 1..Len(Segments) :
              Segments[k].type = "text_run_group" =>
                 \A m \in 1..Len(Segments[k].original_runs) : ~Segments[k].original_runs[m].special
        /\ Len(SelectSeq(Segments, LAMBDA sg : sg.type = "non_text_node"
                                               /\ IsOpaqueRun(Val(sg.original_node))))
             = Len(SelectSeq(p_node, IsOpaqueRun))

\* C4: the children with an unknown tag are all present in the rebuilt
\* paragraph, unchanged and in their original order.
C4_UnknownChildrenPreserved ==
    ppc = "reconstructed" =>
        SelectSeq(Val(rebuilt), IsUnknown) = SelectSeq(p_node, IsUnknown)

\* C5: the rebuilt paragraph holds the non-text children of the original
\* (opaque runs, math objects, drawings, objects), each identical to the
\* original node and in the original order, whatever the translator returned.
C5_NonTextNodesPreserved ==
    ppc = "reconstructed" =>
        SelectSeq(Val(rebuilt), IsNonText) = SelectSeq(p_node, IsNonText)

\* C6: rebuilding never raises, and every hyperlink with at least one inner
\* run comes out with exactly one inner run, which carries the text of its
\* segment.
C6_HyperlinkCollapsed ==
    /\ ppc # "raised"
    /\ ppc = "reconstructed" =>
          LET pieces == Split(IF IsNone(Val(translated)) THEN Blob ELSE Val(Val(translated)))
          IN  \A k \in 1..Len(Segments) :
                 (Segments[k].type = "hyperlink" /\ Len(Val(Segments[k].original_node).runs) >= 1) =>
                     /\ Len(RebuiltBody[k].runs) = 1
                     /\ RebuiltBody[k].runs[1].t = Some(SegmentText(Segments[k], k, pieces))

\* C8: a paragraph with N >= 1 segments has exactly N - 1 separator tokens in its blob.
C8_SeparatorCount ==
    (Parsed /\ Len(Segments) >= 1) => Count(Blob, SEGMENT_SEPARATOR) = Len(Segments) - 1

\* the text a child shows: of a run its w:t, of a hyperlink its inner runs' texts
ChildText(c) ==
    IF c.kind = "r" THEN (IF IsNone(c.t) THEN <<>> ELSE Val(c.t))
    ELSE IF c.kind = "hyperlink" THEN Concat(RunTexts(c.runs))
    ELSE <<>>

RECURSIVE TextOf(_)
TextOf(children) ==
    IF Len(children) = 0 THEN <<>> ELSE ChildText(Head(children)) \o TextOf(Tail(children))

RunRprs(children) ==
    LET rs == SelectSeq(children, LAMBDA c : c.kind = "r")
    IN  [k \in 1..Len(rs) |-> rs[k].rPr]

\* C9: with the blob returned unchanged, the rebuilt paragraph has the runs of
\* the original: as many, with the same properties, and the same text.
C9_RoundTrip ==
    (ppc \in {"reconstructed", "raised"} /\ translated = Some(Some(Blob))) =>
        /\ ppc = "reconstructed"
        /\ RunRprs(Val(rebuilt)) = RunRprs(p_node)
        /\ TextOf(Val(rebuilt)) = TextOf(p_node)

\* C7: when translate_function answered for every paragraph, each paragraph
\* whose reconstruction does not fail is replaced by its rebuilt version in
\* the returned document, even if another paragraph of the part failed.
C7_FailureContainedPerParagraph ==
    (part_pc \in {"done", "failed"} /\ ~IsNone(translated_full_texts)
        /\ Len(Val(translated_full_texts)) = Len(all_p_data)) =>
        \A k \in 1..Len(all_p_data) :
            LET r == reconstruct_translated_paragraph(all_p_data[k].data,
                                                      Val(translated_full_texts)[k])
            IN  ~r.raised => Val(returned)[all_p_data[k]._index_in_parent + 1].kids = r.node

\* the visible run properties: tag -> attributes without the font hint; an
\* absent w:rPr and a w:rFonts left without attributes show nothing
Visible(rPr) ==
    IF IsNone(rPr) THEN {}
    ELSE LET shown(c) == IF c.tag = "rFonts" THEN {a \in c.attrs : a[1] # "hint"} ELSE c.attrs
         IN  {<<Val(rPr)[k].tag, shown(Val(rPr)[k])>> : k \in 1..Len(Val(rPr))}
             \ {<<"rFonts", {}>>}

\* for every child the index of the segment that took it, 0 for a skipped child
RECURSIVE OwnerLoop(_, _, _, _)
OwnerLoop(children, segs, k, si) ==
    IF k > Len(children) THEN <<>>
    ELSE IF IsUnknown(children[k]) THEN <<0>> \o OwnerLoop(children, segs, k + 1, si)
    ELSE IF segs[si].type = "text_run_group"
         THEN [m \in 1..Len(segs[si].original_runs) |-> si]
              \o OwnerLoop(children, segs, k + Len(segs[si].original_runs), si + 1)
         ELSE <<si>> \o OwnerLoop(children, segs, k + 1, si + 1)

Owner == OwnerLoop(p_node, Segments, 1, 1)

\* C10: adjacent plain runs with the same visible properties are in one
\* text_run_group; adjacent runs with different visible properties never are.
C10_MergeCorrect ==
    Parsed =>
        \A k \in 1..(Len(p_node) - 1) :
            /\ (IsPlainRun(p_node[k]) /\ IsPlainRun(p_node[k + 1])
                  /\ Visible(p_node[k].rPr) = Visible(p_node[k + 1].rPr))
                 => Owner[k] = Owner[k + 1]
            /\ (p_node[k].kind = "r" /\ p_node[k + 1].kind = "r"
                  /\ Visible(p_node[k].rPr) # Visible(p_node[k + 1].rPr))
                 => Owner[k] # Owner[k + 1]

\* a paragraph where a run without w:rPr and a run with a hint-only w:rFonts
\* were merged and the bold run after them was kept apart
C10_Witness ==
    /\ ppc = "segmented"
    /\ \E k \in 1..(Len(p_node) - 2) :
          /\ IsPlainRun(p_node[k]) /\ IsPlainRun(p_node[k + 1]) /\ IsPlainRun(p_node[k + 2])
          /\ p_node[k].rPr # p_node[k + 1].rPr
          /\ Owner[k] = Owner[k + 1]
          /\ Owner[k + 1] # Owner[k + 2]

(***************************************************************************)
(* Properties of the fallbacks                                             *)
(***************************************************************************)

\* the text the translator returned, split at the separator
Pieces == Split(IF IsNone(Val(translated)) THEN Blob ELSE Val(Val(translated)))

\* the translator returned a text whose separator count is not N - 1
Mismatch ==
    /\ ~IsNone(Val(translated))
    /\ Count(Val(Val(translated)), SEGMENT_SEPARATOR) # Len(Segments) - 1

\* C11: when the returned blob has a separator count other than N - 1,
\* rebuilding does not raise and emits one child per segment, N in all; every
\* text child has a text, and a segment the split has no piece for gets its
\* recorded original text (a non-text slot its original node).
C11_MismatchTolerated ==
    (ppc \in {"reconstructed", "raised"} /\ Mismatch) =>
        /\ ppc = "reconstructed"
        /\ Len(RebuiltBody) = Len(Segments)
        /\ \A k \in 1..Len(Segments) :
              /\ Segments[k].type = "text_run_group" => ~IsNone(RebuiltBody[k].t)
              /\ (k > Len(Pieces) /\ Segments[k].type = "text_run_group")
                    => RebuiltBody[k].t = Some(Segments[k].original_text)
              /\ (k > Len(Pieces) /\ Segments[k].type = "non_text_node")
                    => RebuiltBody[k] = Val(Segments[k].original_node)

\* the text a rebuilt child carries for its segment (optional)
CarriedText(child) ==
    IF child.kind = "hyperlink"
    THEN (IF FirstT(child.runs) = 0 THEN None ELSE child.runs[FirstT(child.runs)].t)
    ELSE child.t

\* C12: a paragraph for which translate_function returned the empty string
\* has, in the returned document, every text segment carrying its original
\* text.
C12_EmptyAnswerFallsBack ==
    part_pc = "done" /\ ~IsNone(translated_full_texts) =>
        \A k \in 1..Len(all_p_data) :
            Val(translated_full_texts)[k] = Some(<<>>) =>
                LET segs == all_p_data[k].data.segments
                    kids == Val(returned)[all_p_data[k]._index_in_parent + 1].kids
                IN  \A j \in 1..Len(segs) :
                        segs[j].type = "text_run_group" =>
                            CarriedText(kids[j]) = Some(segs[j].original_text)

(***************************************************************************)
(* translation.py: _translate_paragraph and llm_translate_concurrent       *)
(***************************************************************************)

\* most paragraphs one call of llm_translate_concurrent is given
MaxBatch == 2

\* largest max_retries of a call
MaxRetries == 2

\* the pool sizes max_workers of a call
WorkerCounts == {1, 2}

\* a spelling of the placeholder that the regular expression of the count
\* check matches and that is not the literal tag, such as "< placeholder >"
PLACEHOLDER_VARIANT == "PHv"

\* one of the refusal patterns, the echoed prompt, a quote character, and a
\* stretch of translated text as long as the refusal length limit
REFUSAL == "sorry"
PROMPT_ECHO == "CRITICAL RULES"
QUOTE == "'"
LONG_TEXT == "x50"
REFUSAL_MAX_LEN == 50

\* len() of a text in characters
RECURSIVE CharLen(_)
CharLen(text) ==
    IF Len(text) = 0 THEN 0
    ELSE (IF Head(text) = LONG_TEXT THEN REFUSAL_MAX_LEN ELSE 1) + CharLen(Tail(text))

\* str.isalnum() holds for some character of the token
IsAlnum(token) ==
    token \in {"a", "x", LONG_TEXT, SEGMENT_SEPARATOR, PLACEHOLDER_TAG, PLACEHOLDER_VARIANT,
               REFUSAL, PROMPT_ECHO}

is_meaningful_text(s) ==
    /\ Len(s) > 0
    /\ Len(Strip(s)) > 0
    /\ \E k \in 1..Len(s) : IsAlnum(s[k])

\* str.strip(chars)
RECURSIVE LStripOf(_, _)
LStripOf(text, chars) ==
    IF Len(text) > 0 /\ Head(text) \in chars THEN LStripOf(Tail(text), chars) ELSE text
RECURSIVE RStripOf(_, _)
RStripOf(text, chars) ==
    IF Len(text) > 0 /\ text[Len(text)] \in chars
    THEN RStripOf(SubSeq(text, 1, Len(text) - 1), chars) ELSE text

clean_llm_output(text) ==
    IF Len(text) = 0 THEN <<>>
    ELSE RStripOf(LStripOf(Strip(text), {" ", QUOTE}), {" ", QUOTE})

is_llm_refusal(text) ==
    /\ Len(text) > 0
    /\ Len(Strip(text)) > 0
    /\ Count(text, REFUSAL) > 0
    /\ CharLen(text) < REFUSAL_MAX_LEN

\* len(strict_placeholder_regex.findall(text))
FoundPlaceholders(text) == Count(text, PLACEHOLDER_TAG) + Count(text, PLACEHOLDER_VARIANT)

\* what one request comes back with: an exception, or the content of the answer
Response(raises, content) == [raises |-> raises, content |-> content]

Responses ==
    {Response(TRUE, <<>>)}
    \cup {Response(FALSE, c) : c \in {<<"x">>, <<QUOTE, "x", QUOTE>>, <<"x", PLACEHOLDER_TAG>>,
                                      <<"x", PLACEHOLDER_VARIANT>>, <<REFUSAL>>,
                                      <<REFUSAL, LONG_TEXT>>, <<PROMPT_ECHO>>, <<>>}}

\* one iteration of the retry loop, attempt counted from 0: it returns the
\* original, goes on to the next iteration, or breaks with the accepted text
LoopBody(text, max_retries, attempt, resp) ==
    LET give_up == IF attempt + 1 = max_retries
                   THEN [op |-> "return", text |-> text]
                   ELSE [op |-> "continue", text |-> <<>>]
    IN  IF resp.raises THEN give_up
        ELSE LET cur == clean_llm_output(resp.content)
             IN  IF is_llm_refusal(cur) THEN [op |-> "return", text |-> text]
                 ELSE IF Count(cur, PROMPT_ECHO) > 0 THEN [op |-> "continue", text |-> <<>>]
                 ELSE IF Count(text, PLACEHOLDER_TAG) = FoundPlaceholders(cur)
                      THEN [op |-> "break", text |-> cur]
                      ELSE give_up

\* after the loop: an empty translated_text gives the original
AfterLoopKeep(original_full_text, translated_text) == translated_text
AfterLoop(original_full_text, translated_text) ==
    IF Len(translated_text) = 0 THEN original_full_text ELSE translated_text

\* a call of _translate_paragraph: where it is, the loop counter, the requests
\* it has issued, the response it accepted, what it returned, and its place
\* in the order in which as_completed handed the futures over (0: not yet)
Task(pc, attempt, requests, accepted, ret, seq) ==
    [pc |-> pc, attempt |-> attempt, requests |-> requests, accepted |-> accepted,
     ret |-> ret, seq |-> seq]

NoTask == Task("none", 0, 0, None, None, 0)
Submitted == Task("submitted", 0, 0, None, None, 0)

BatchBlobs == {<<>>, <<" ">>, <<"!">>, <<"a">>, <<"a", PLACEHOLDER_TAG>>}

BatchInit ==
    /\ StyleIdle
    /\ ParaIdle
    /\ PartIdle
    /\ MatIdle
    /\ CmpIdle
    /\ para_data_list \in UNION {[1..n -> BatchBlobs] : n \in 0..MaxBatch}
    /\ real_api_kwargs \in [max_retries : 0..MaxRetries, max_workers : WorkerCounts]
    /\ results = <<>>
    /\ writes = <<>>
    /\ tasks = <<>>
    /\ batch_pc = "called"
    /\ batch_ret = None

\* steps 1 to 3: the result list, the indices to translate, the early return
\* when there is none, the submission of one task per index
BatchSubmit ==
    /\ batch_pc = "called"
    /\ LET n == Len(para_data_list)
           indices_to_translate == {i \in 1..n : Len(Strip(para_data_list[i])) > 0}
       IN  /\ results' = [i \in 1..n |-> <<>>]
           /\ writes' = [i \in 1..n |-> 0]
           /\ tasks' = [i \in 1..n |-> IF i \in indices_to_translate THEN Submitted ELSE NoTask]
           /\ IF indices_to_translate = {}
              THEN batch_ret' = Some(para_data_list) /\ batch_pc' = "returned"
              ELSE batch_ret' = batch_ret /\ batch_pc' = "collecting"
    /\ UNCHANGED <<styleVars, paraVars, partVars, matVars, cmpVars, para_data_list, real_api_kwargs>>

\* the pool takes the tasks in the order of submission, max_workers at a time
MayStart(i) ==
    /\ batch_pc = "collecting"
    /\ i \in 1..Len(tasks)
    /\ tasks[i].pc = "submitted"
    /\ \A j \in 1..(i - 1) : tasks[j].pc # "submitted"
    /\ Cardinality({j \in 1..Len(tasks) : tasks[j].pc = "running"}) < real_api_kwargs.max_workers

\* _translate_paragraph up to its first request
TaskStart(i) ==
    /\ MayStart(i)
    /\ LET text == para_data_list[i]
       IN  tasks' = [tasks EXCEPT ![i] =
              IF is_meaningful_text(text)
              THEN IF real_api_kwargs.max_retries > 0
                   THEN [@ EXCEPT !.pc = "running"]
                   ELSE [@ EXCEPT !.pc = "returned", !.ret = Some(AfterLoop(text, <<>>))]
              ELSE [@ EXCEPT !.pc = "returned", !.ret = Some(text)]]
    /\ UNCHANGED <<styleVars, paraVars, partVars, matVars, cmpVars, para_data_list, real_api_kwargs,
                   results, writes, batch_pc, batch_ret>>

\* the task ends with an exception that _translate_paragraph does not catch
TaskRaises(i) ==
    /\ MayStart(i)
    /\ tasks' = [tasks EXCEPT ![i].pc = "raised"]
    /\ UNCHANGED <<styleVars, paraVars, partVars, matVars, cmpVars, para_data_list, real_api_kwargs,
                   results, writes, batch_pc, batch_ret>>

\* one iteration of the retry loop with the response of its request, and the
\* code after the loop when the iteration is the last
TaskAttempt(i, resp) ==
    /\ batch_pc = "collecting"
    /\ i \in 1..Len(tasks)
    /\ tasks[i].pc = "running"
    /\ LET text == para_data_list[i]
           t == tasks[i]
           r == LoopBody(text, real_api_kwargs.max_retries, t.attempt, resp)
           done(accepted, ret) == Task("returned", t.attempt, t.requests + 1, accepted, Some(ret), 0)
       IN  tasks' = [tasks EXCEPT ![i] =
              IF r.op = "return" THEN done(None, r.text)
              ELSE IF r.op = "break"
                   THEN done(IF Len(r.text) > 0 THEN Some(r.text) ELSE None, AfterLoop(text, r.text))
              ELSE IF t.attempt + 1 = real_api_kwargs.max_retries
                   THEN done(None, AfterLoop(text, <<>>))
                   ELSE Task("running", t.attempt + 1, t.requests + 1, None, None, 0)]
    /\ UNCHANGED <<styleVars, paraVars, partVars, matVars, cmpVars, para_data_list, real_api_kwargs,
                   results, writes, batch_pc, batch_ret>>

\* future.result() inside the try: the text for the slot, or the exception
\* leaving llm_translate_concurrent
FutureResultUncaught(task, blob) ==
    [abort |-> task.pc = "raised", text |-> IF task.pc = "raised" THEN <<>> ELSE Val(task.ret)]
FutureResult(task, blob) ==
    [abort |-> FALSE, text |-> IF task.pc = "raised" THEN blob ELSE Val(task.ret)]

\* results[index] = ...
WriteByOrder(res, index, seq, text) == [res EXCEPT ![seq] = text]
WriteResult(res, index, seq, text) == [res EXCEPT ![index] = text]

\* one iteration of the as_completed loop: a finished future, whichever
Collect(i) ==
    /\ batch_pc = "collecting"
    /\ i \in 1..Len(tasks)
    /\ tasks[i].pc \in {"returned", "raised"}
    /\ tasks[i].seq = 0
    /\ LET seq == Cardinality({j \in 1..Len(tasks) : tasks[j].seq > 0}) + 1
           out == FutureResult(tasks[i], para_data_list[i])
       IN  IF out.abort
           THEN /\ batch_pc' = "aborted"
                /\ UNCHANGED <<results, writes, tasks>>
           ELSE /\ results' = WriteResult(results, i, seq, out.text)
                /\ writes' = [writes EXCEPT ![i] = @ + 1]
                /\ tasks' = [tasks EXCEPT ![i].seq = seq]
                /\ batch_pc' = batch_pc
    /\ UNCHANGED <<styleVars, paraVars, partVars, matVars, cmpVars, para_data_list, real_api_kwargs,
                   batch_ret>>

\* step 4 and the return, once every future was handed over
BatchFill ==
    /\ batch_pc = "collecting"
    /\ \A i \in 1..Len(tasks) : tasks[i].pc = "none" \/ tasks[i].seq > 0
    /\ results' = [i \in 1..Len(results) |->
                      IF tasks[i].pc = "none" THEN para_data_list[i] ELSE results[i]]
    /\ writes' = [i \in 1..Len(writes) |-> IF tasks[i].pc = "none" THEN writes[i] + 1 ELSE writes[i]]
    /\ batch_ret' = Some(results')
    /\ batch_pc' = "returned"
    /\ UNCHANGED <<styleVars, paraVars, partVars, matVars, cmpVars, para_data_list, real_api_kwargs, tasks>>

BatchNext ==
    \/ BatchSubmit
    \/ \E i \in 1..MaxBatch : TaskStart(i)
    \/ \E i \in 1..MaxBatch : TaskRaises(i)
    \/ \E i \in 1..MaxBatch : \E resp \in Responses : TaskAttempt(i, resp)
    \/ \E i \in 1..MaxBatch : Collect(i)
    \/ BatchFill

BatchSpec == BatchInit /\ [][BatchNext]_vars

(***************************************************************************)
(* Properties of the translation batch                                     *)
(***************************************************************************)

\* C13: the returned list is as long as the input and entry i is the result
\* of the task of paragraph i (its original blob where no task was
\* submitted), in whatever order the tasks finished; every slot is assigned
\* once, and no slot of a non-empty blob is left empty.
C13_ResultsByIndex ==
    /\ \A i \in 1..Len(writes) : writes[i] <= 1
    /\ batch_pc = "returned" =>
          /\ Len(Val(batch_ret)) = Len(para_data_list)
          /\ \A i \in 1..Len(para_data_list) :
                /\ Val(batch_ret)[i] =
                      IF tasks[i].pc = "none" \/ tasks[i].pc = "raised" THEN para_data_list[i]
                      ELSE Val(tasks[i].ret)
                /\ (\E j \in 1..Len(tasks) : tasks[j].pc # "none") => writes[i] = 1
                /\ Len(para_data_list[i]) > 0 => Len(Val(batch_ret)[i]) > 0

\* two tasks finished in the reverse order of their submission with different results
C13_Witness ==
    /\ batch_pc = "returned"
    /\ Len(tasks) = 2
    /\ tasks[1].seq = 2
    /\ tasks[2].seq = 1
    /\ Val(batch_ret)[1] # Val(batch_ret)[2]
    /\ tasks[1].accepted # None

\* C14: a task that raises does not abort the call; its slot gets the
\* original blob, and every other task's slot gets what that task returned.
C14_TaskExceptionContained ==
    /\ batch_pc # "aborted"
    /\ batch_pc = "returned" =>
          \A i \in 1..Len(tasks) :
              tasks[i].pc = "raised" =>
                 /\ Val(batch_ret)[i] = para_data_list[i]
                 /\ \A j \in 1..Len(tasks) :
                       tasks[j].pc = "returned" => Val(batch_ret)[j] = Val(tasks[j].ret)

\* one task raised, its sibling returned an accepted translation
C14_Witness ==
    /\ batch_pc = "returned"
    /\ \E i, j \in 1..Len(tasks) :
          /\ tasks[i].pc = "raised"
          /\ tasks[j].pc = "returned"
          /\ tasks[j].accepted # None
          /\ Val(batch_ret)[j] # para_data_list[j]

\* C15: a call issues at most max_retries requests; once it accepted a
\* response it has returned that response; a call that returned without an
\* accepted response returned the original blob; a call that raised had
\* issued no request; the text returned for a non-empty blob is not empty.
C15_RetryContract ==
    \A i \in 1..Len(tasks) :
        LET t == tasks[i]
        IN  /\ t.requests <= real_api_kwargs.max_retries
            /\ t.accepted # None => (t.pc = "returned" /\ t.ret = t.accepted)
            /\ (t.pc = "returned" /\ t.accepted = None) => t.ret = Some(para_data_list[i])
            /\ t.pc = "raised" => t.requests = 0
            /\ (t.pc = "returned" /\ Len(para_data_list[i]) > 0) => Len(Val(t.ret)) > 0

\* a call that used up its budget of two requests on an exception and an
\* empty response, and one that stopped at an accepted first response
C15_Witness ==
    /\ real_api_kwargs.max_retries = 2
    /\ Len(tasks) = 2
    /\ tasks[1].pc = "returned" /\ tasks[1].requests = 2 /\ tasks[1].accepted = None
    /\ tasks[2].pc = "returned" /\ tasks[2].requests = 1 /\ tasks[2].accepted # None

(***************************************************************************)
(* Properties of process_xml_part                                          *)
(***************************************************************************)

\* child k of the given part is a paragraph that is handed to translate_function
Selected(k) ==
    /\ xml_content[k].tag = "p"
    /\ Len(Strip(parse_paragraph_structure(xml_content[k].kids).full_text_for_llm)) > 0

\* the entry of all_p_data made for child k of the part
EntryOf(k) == CHOOSE e \in 1..Len(all_p_data) : all_p_data[e]._index_in_parent = k - 1

\* how far a selected paragraph has come: 0 Unsegmented, 1 Segmented,
\* 2 Translated, 3 Reconstructed
PState(k) ==
    IF part_pc = "called" THEN 0
    ELSE IF IsNone(translated_full_texts) THEN 1
    ELSE IF EntryOf(k) < loop_i THEN 3
    ELSE IF EntryOf(k) <= Len(Val(translated_full_texts)) THEN 2
    ELSE 1

\* every selected paragraph stays where it is or moves to the next state
C16_Forward ==
    \A k \in 1..Len(xml_content) :
        Selected(k) => (PState(k)' = PState(k) \/ PState(k)' = PState(k) + 1)

\* once translate_function has answered for every paragraph, the call ends
\* with every selected paragraph Reconstructed
C16_AllReconstructed ==
    (part_pc \in {"done", "failed"} /\ ~IsNone(translated_full_texts)
        /\ Len(Val(translated_full_texts)) = Len(all_p_data)) =>
        \A k \in 1..Len(xml_content) : Selected(k) => PState(k) = 3

\* C16: every selected paragraph passes through Unsegmented, Segmented,
\* Translated, Reconstructed in that order, one state at a time and never
\* back; when translate_function answered for every paragraph, with whatever
\* separator counts, every selected paragraph ends Reconstructed.
C16_ParagraphStates == [][C16_Forward]_vars /\ []C16_AllReconstructed

\* C17: a call that failed (unparsable input, translate_function raising or
\* answering with too few entries, an exception while rebuilding) returned
\* exactly the bytes it was given.
C17_FailureReturnsInput ==
    part_pc = "failed" => returned = Some(xml_content)

\* a call that failed after it had replaced a paragraph of the tree
C17_Witness ==
    /\ part_pc = "failed"
    /\ loop_i > 1
    /\ root # xml_content

\* the text has no character other than white space
IsBlank(text) == \A k \in 1..Len(text) : text[k] = " "

\* some text segment of the paragraph has an alphanumeric character
HasAlnum(data) ==
    \E j \in 1..Len(data.segments) :
        /\ data.segments[j].type # "non_text_node"
        /\ \E m \in 1..Len(data.segments[j].original_text) :
              IsAlnum(data.segments[j].original_text[m])

\* child k of the part is not handed to translate_function and is the node
\* it was, in the tree and in the returned document
LeftAlone(k) ==
    /\ \A e \in 1..Len(all_p_data) : all_p_data[e]._index_in_parent # k - 1
    /\ part_pc \in {"extracted", "rebuilding", "done", "failed"} => root[k] = xml_content[k]
    /\ part_pc = "done" => Val(returned)[k] = xml_content[k]

MaxRuns == 2
MaxPasses == 2

\* a w:rStyle child naming a style, and the style a child of that tag names
RStyle(id) == Prop("rStyle", {<<"val", id>>}, 0)
StyleOf(child) == CHOOSE id \in StyleIds \cup {UnknownId} : <<"val", id>> \in child.attrs

\* a w:r of the paragraph or an m:r of a formula: its w:rPr and its text, both optional
MRun(rPr, t) == [rPr |-> rPr, t |-> t]

\* a w:p: the style its w:pPr names (optional), its direct runs, the runs of its formulas
MPara(pStyle, runs, math) == [pStyle |-> pStyle, runs |-> runs, math |-> math]

\* direct formatting: italic switched off, a size of its own
DirectI == Prop("i", {<<"val", 0>>}, 0)
DirectSz == Prop("sz", {<<"val", 3>>}, 0)

\* the style tables: A may be based on B; a style's w:rPr may itself hold a w:rStyle
MatStyleRprs == {None, Some(RprOf(1, 1)), Some(RprOf(0, 2)), Some(<<RStyle("C")>> \o RprOf(1, 0))}
MatTables ==
    {[s \in StyleIds |-> [based_on |-> IF s = "A" THEN b ELSE None, rPr_xml |-> r[s]]] :
        b \in {None, Some("B")},
        r \in {q \in [StyleIds -> MatStyleRprs] : q["B"] \in {None, Some(RprOf(0, 2))}}}

MatRprs == {None, Some(<<RStyle("C")>>), Some(<<RStyle("C"), DirectI>>),
            Some(<<DirectSz, RStyle(UnknownId)>>)}
MatRuns == {MRun(r, Some(<<"a">>)) : r \in MatRprs}
              \cup {MRun(Some(<<RStyle("C")>>), Some(<<" ">>)), MRun(None, None)}
MatMathRuns == {MRun(None, Some(<<"a">>)), MRun(Some(<<RStyle("C"), DirectI>>), Some(<<"a">>)),
                MRun(Some(<<RStyle("C")>>), None)}
MatParas ==
    {MPara(ps, rs, ms) : ps \in {None, Some("A"), Some(UnknownId)},
                         rs \in UNION {[1..n -> MatRuns] : n \in 1..MaxRuns},
                         ms \in {<<>>} \cup {<<m>> : m \in MatMathRuns}}

\* step 3: the w:rStyle found first is removed, then every child of the run's
\* own w:rPr replaces the child of its tag, a further w:rStyle being dropped
RECURSIVE OverlayDirect(_, _)
OverlayDirect(final, rPr) ==
    IF Len(rPr) = 0 THEN final
    ELSE IF Head(rPr).tag = "rStyle" THEN OverlayDirect(final, Tail(rPr))
    ELSE OverlayDirect(PutChild(final, Head(rPr)), Tail(rPr))

\* steps 1 to 3: the paragraph style's children, then the run style's, then the run's own
LayerStyleLast(para_rpr, style_rpr, rPr) == PutChildren(OverlayDirect(para_rpr, rPr), style_rpr)
Layer(para_rpr, style_rpr, rPr) == OverlayDirect(PutChildren(para_rpr, style_rpr), rPr)

\* the w:rPr a style id resolves to, as a list of children (none when it resolves to None)
Resolved(tbl, id) ==
    IF IsNone(id) THEN <<>>
    ELSE LET r == get_style_rpr(tbl, Val(id)) IN IF IsNone(r) THEN <<>> ELSE Val(r)

\* the style the first w:rStyle child of a w:rPr names (optional)
RunStyleId(rPr) ==
    IF FindTag(rPr, "rStyle") = 0 THEN None ELSE Some(StyleOf(rPr[FindTag(rPr, "rStyle")]))

\* a run is processed when it has a w:t with meaningful text
Processed(run) == ~IsNone(run.t) /\ is_meaningful_text(Val(run.t))

\* the body of the loop over the w:r children of a paragraph
MaterializeRun(tbl, para_rpr, run) ==
    IF ~Processed(run) THEN run
    ELSE LET rPr == IF IsNone(run.rPr) THEN <<>> ELSE Val(run.rPr)
         IN  [run EXCEPT !.rPr = Some(Layer(para_rpr, Resolved(tbl, RunStyleId(rPr)), rPr))]

\* the body of the loop over the m:r elements of the formulas: no paragraph layer
MaterializeMathRun(tbl, run) ==
    IF ~Processed(run) THEN run
    ELSE LET rPr == IF IsNone(run.rPr) THEN <<>> ELSE Val(run.rPr)
         IN  [run EXCEPT !.rPr = Some(Layer(<<>>, Resolved(tbl, RunStyleId(rPr)), rPr))]

materialize_styles_from_style_defs(tbl, paras) ==
    [k \in 1..Len(paras) |->
        LET p == paras[k]
            para_rpr == Resolved(tbl, p.pStyle)
        IN  MPara(p.pStyle,
                  [j \in 1..Len(p.runs) |-> MaterializeRun(tbl, para_rpr, p.runs[j])],
                  [j \in 1..Len(p.math) |-> MaterializeMathRun(tbl, p.math[j])])]

MatInit ==
    /\ styles \in MatTables
    /\ styleQuery = None
    /\ styleResult = None
    /\ ParaIdle
    /\ PartIdle
    /\ BatchIdle
    /\ CmpIdle
    /\ m_input \in {<<p>> : p \in MatParas}
    /\ m_root = m_input
    /\ m_first = None
    /\ m_passes = 0

\* one call of materialize_styles_from_style_defs on the tree
Materialize ==
    /\ m_passes < MaxPasses
    /\ m_root' = materialize_styles_from_style_defs(styles, m_root)
    /\ m_first' = IF m_passes = 0 THEN Some(m_root') ELSE m_first
    /\ m_passes' = m_passes + 1
    /\ UNCHANGED <<styleVars, paraVars, partVars, batchVars, cmpVars, m_input>>

MatNext == Materialize

MatSpec == MatInit /\ [][MatNext]_vars

(***************************************************************************)
(* Properties of materialization                                           *)
(***************************************************************************)

\* the attributes a w:rPr declares for a tag, as a set: empty when it has no such child
Declared(rpr, tag) == {rpr[k].attrs : k \in {m \in 1..Len(rpr) : rpr[m].tag = tag}}

\* C19: after the first pass every processed direct run carries, for each
\* property, its own direct value if it had one, else the value the run
\* style resolves to, else the value the paragraph style resolves to, and
\* nothing else.
C19_ThreeLayers ==
    m_passes = 1 =>
        \A k \in 1..Len(m_input) : \A j \in 1..Len(m_input[k].runs) :
            LET run == m_input[k].runs[j]
                direct == IF IsNone(run.rPr) THEN <<>> ELSE Val(run.rPr)
                style == Resolved(styles, RunStyleId(direct))
                para == Resolved(styles, m_input[k].pStyle)
                final == Val(m_root[k].runs[j].rPr)
            IN  Processed(run) =>
                   \A tag \in {"i", "sz"} :
                       Declared(final, tag) =
                           IF Declared(direct, tag) # {} THEN Declared(direct, tag)
                           ELSE IF Declared(style, tag) # {} THEN Declared(style, tag)
                           ELSE Declared(para, tag)

\* a run whose direct italic overrides the paragraph style's and whose size
\* comes from its run style, which overrides the paragraph style's
C19_Witness ==
    /\ m_passes = 1
    /\ \E j \in 1..Len(m_input[1].runs) :
          LET run == m_input[1].runs[j]
              direct == IF IsNone(run.rPr) THEN <<>> ELSE Val(run.rPr)
              style == Resolved(styles, RunStyleId(direct))
              para == Resolved(styles, m_input[1].pStyle)
          IN  /\ Processed(run)
              /\ Declared(direct, "i") # {} /\ Declared(para, "i") # {}
              /\ Declared(direct, "i") # Declared(para, "i")
              /\ Declared(direct, "sz") = {}
              /\ Declared(style, "sz") # {} /\ Declared(para, "sz") # {}
              /\ Declared(style, "sz") # Declared(para, "sz")

\* the w:rPr of every run and math run of the tree
AllRprs(paras) ==
    [k \in 1..Len(paras) |->
        <<[j \in 1..Len(paras[k].runs) |-> paras[k].runs[j].rPr],
          [j \in 1..Len(paras[k].math) |-> paras[k].math[j].rPr]>>]

\* C20: a second pass leaves the w:rPr of every run and math run as the
\* first pass left it, and after a pass no processed run has a w:rStyle.
C20_Idempotent ==
    /\ m_passes = 2 => AllRprs(m_root) = AllRprs(Val(m_first))
    /\ m_passes >= 1 =>
          \A k \in 1..Len(m_root) :
              \A run \in SeqToSet(m_root[k].runs) \cup SeqToSet(m_root[k].math) :
                  Processed(run) => FindTag(Val(run.rPr), "rStyle") = 0

\* C21: after the first pass every processed math run carries, for each
\* property, its own direct value if it had one, else the value its run
\* style resolves to, else the value the paragraph style resolves to.
C21_MathRunThreeLayers ==
    m_passes = 1 =>
        \A k \in 1..Len(m_input) : \A j \in 1..Len(m_input[k].math) :
            LET run == m_input[k].math[j]
                direct == IF IsNone(run.rPr) THEN <<>> ELSE Val(run.rPr)
                style == Resolved(styles, RunStyleId(direct))
                para == Resolved(styles, m_input[k].pStyle)
                final == Val(m_root[k].math[j].rPr)
            IN  Processed(run) =>
                   \A tag \in {"i", "sz"} :
                       Declared(final, tag) =
                           IF Declared(direct, tag) # {} THEN Declared(direct, tag)
                           ELSE IF Declared(style, tag) # {} THEN Declared(style, tag)
                           ELSE Declared(para, tag)

(***************************************************************************)
(* Further properties of style resolution                                  *)
(***************************************************************************)

\* the styles the walk of the last query visited, leaf first
Chain == ChainIds(styles, styleQuery, <<>>)

\* the table with the based_on pointer of the last visited style removed
Truncated ==
    IF Len(Chain) = 0 THEN styles
    ELSE [styles EXCEPT ![Chain[Len(Chain)]].based_on = None]

\* C22: on every table, cyclic or pointing to an unknown style, the walk
\* takes the w:rPr of each style at most once, and the result is the result
\* on the chain cut where the cycle closes or the style is missing.
C22_WalkTerminates ==
    ~IsNone(styleQuery) =>
        LET ch == Chain
        IN  /\ Len(WalkChain(styles, styleQuery, {}, <<>>))
                  = Cardinality({k \in 1..Len(ch) : ~IsNone(styles[ch[k]].rPr_xml)})
            /\ Len(ch) <= Cardinality(StyleIds)
            /\ styleResult = get_style_rpr(Truncated, Val(styleQuery))

\* a query on a cycle of two styles that declare different sizes, and one
\* on a style based on itself, and one whose chain ends at an unknown style
C22_Witness ==
    /\ ~IsNone(styleQuery)
    /\ ~IsNone(styleResult)
    /\ LET s == Val(styleQuery)
       IN  /\ s \in StyleIds
           /\ Len(Chain) = 2
           /\ styles[Chain[2]].based_on = Some(s)
           /\ Declares(styles, Chain[1], "sz") /\ Declares(styles, Chain[2], "sz")
           /\ DeclaredVal(styles, Chain[1], "sz") # DeclaredVal(styles, Chain[2], "sz")

\* the positions of the styles of the chain that declare the tag
Declaring(ch, tag) == {k \in 1..Len(ch) : Declares(styles, ch[k], tag)}

\* C23: the keys of the resolved set are the keys declared by the styles of
\* the chain, a key that exactly one of them declares has that style's
\* value, and get_size_by_style_id returns a size so declared.
C23_UnionOfKeys ==
    ~IsNone(styleQuery) =>
        LET res == IF IsNone(styleResult) THEN <<>> ELSE Val(styleResult)
            ch == Chain
        IN  /\ {res[k].tag : k \in 1..Len(res)}
                 = {t \in SeqToSet(StyleTags) : Declaring(ch, t) # {}}
            /\ \A t \in SeqToSet(StyleTags) :
                  LET ds == Declaring(ch, t)
                  IN  Cardinality(ds) = 1 =>
                        LET val == DeclaredVal(styles, ch[CHOOSE m \in ds : TRUE], t)
                        IN  /\ <<t, val>> \in AsMap(res)
                            /\ t = "sz" =>
                                  \E v \in 1..MaxVal :
                                     /\ val = {<<"val", v>>}
                                     /\ get_size_by_style_id(styles, Val(styleQuery)) = Some(v)

\* a style that declares italic only, based on a style that declares a size only
C23_Witness ==
    /\ ~IsNone(styleQuery)
    /\ Len(Chain) = 2
    /\ Declares(styles, Chain[1], "i") /\ ~Declares(styles, Chain[1], "sz")
    /\ Declares(styles, Chain[2], "sz") /\ ~Declares(styles, Chain[2], "i")
    /\ Len(Val(styleResult)) = 2

\* C24: the result is None exactly when the identifier is unknown or no
\* style of its chain has a w:rPr block.
C24_NoneExactlyWhen ==
    ~IsNone(styleQuery) =>
        LET ch == Chain
        IN  IsNone(styleResult) <=>
               (Val(styleQuery) \notin StyleIds
                  \/ \A k \in 1..Len(ch) : IsNone(styles[ch[k]].rPr_xml))

\* a style without a block whose base has a block without children: the
\* result is a property set, an empty one
C24_Witness ==
    /\ ~IsNone(styleQuery)
    /\ Len(Chain) = 2
    /\ IsNone(styles[Chain[1]].rPr_xml)
    /\ styles[Chain[2]].rPr_xml = Some(<<>>)
    /\ styleResult = Some(<<>>)

(***************************************************************************)
(* _compare_rpr_elements on its own                                        *)
(***************************************************************************)

\* how many optional w:rPr elements are compared with one another
CmpArgs == 3

FontsOf(attrs, kids) == Some(<<Prop("rFonts", attrs, kids)>>)

\* optional w:rPr elements: absent, without children, fonts with and without
\* a hint, and the same properties in both orders
CmpRprs ==
    {None, Some(<<>>), RprHint, RprBold, RprBoldHint,
     FontsOf({<<"hint", "eastAsia">>}, 1),
     FontsOf({<<"ascii", "Arial">>}, 0),
     FontsOf({<<"ascii", "Arial">>, <<"hint", "eastAsia">>}, 0)}
    \cup {Some(<<Prop("sz", {<<"val", v>>}, 0)>>) : v \in 1..MaxVal}
    \cup {Some(<<Prop("b", {}, 0), Prop("sz", {<<"val", v>>}, 0)>>) : v \in 1..MaxVal}
    \cup {Some(<<Prop("sz", {<<"val", v>>}, 0), Prop("b", {}, 0)>>) : v \in 1..MaxVal}

CmpInit ==
    /\ StyleIdle
    /\ ParaIdle
    /\ PartIdle
    /\ BatchIdle
    /\ MatIdle
    /\ c_rprs \in [1..CmpArgs -> CmpRprs]
    /\ c_equal = None

\* every element is compared with every element
Compare ==
    /\ IsNone(c_equal)
    /\ c_equal' = Some([i \in 1..CmpArgs |->
                          [j \in 1..CmpArgs |-> _compare_rpr_elements(c_rprs[i], c_rprs[j])]])
    /\ UNCHANGED <<styleVars, paraVars, partVars, batchVars, matVars, c_rprs>>

CmpNext == Compare

CmpSpec == CmpInit /\ [][CmpNext]_vars

\* the tag -> attributes pairs of a w:rPr with the hint taken off the fonts;
\* a font element that then carries nothing, attribute or child, is left out
HintStripped(rpr) ==
    LET shown(c) == IF c.tag = "rFonts" THEN {a \in c.attrs : a[1] # "hint"} ELSE c.attrs
    IN  {<<rpr[k].tag, shown(rpr[k])>> :
            k \in {m \in 1..Len(rpr) :
                     ~(rpr[m].tag = "rFonts" /\ shown(rpr[m]) = {} /\ rpr[m].kids = 0)}}

\* C25: two absent sets are equal; an absent and a present set are equal
\* exactly when the present one is empty once normalized; two present sets
\* are equal exactly when their hint-stripped tag -> attributes maps are
\* equal, whatever the order of their children.
C25_CompareContract ==
    ~IsNone(c_equal) =>
        \A i, j \in 1..CmpArgs :
            LET a == c_rprs[i]
                b == c_rprs[j]
                r == Val(c_equal)[i][j]
            IN  /\ (IsNone(a) /\ IsNone(b)) => r
                /\ (IsNone(a) /\ ~IsNone(b)) => (r <=> HintStripped(Val(b)) = {})
                /\ (~IsNone(a) /\ IsNone(b)) => (r <=> HintStripped(Val(a)) = {})
                /\ (~IsNone(a) /\ ~IsNone(b)) =>
                       (r <=> HintStripped(Val(a)) = HintStripped(Val(b)))

\* an absent set found equal to a hint-only font element, and both found
\* different from a third set, one with two properties
C25_Witness ==
    /\ ~IsNone(c_equal)
    /\ \E i, j, k \in 1..CmpArgs :
          /\ c_rprs[i] = None /\ c_rprs[j] = RprHint /\ Val(c_equal)[i][j]
          /\ ~IsNone(c_rprs[k]) /\ Len(Val(c_rprs[k])) = 2
          /\ ~Val(c_equal)[i][k] /\ ~Val(c_equal)[k][j]

(***************************************************************************)
(* The comparator as a relation                                            *)
(***************************************************************************)

\* the optional w:rPr elements a paragraph just parsed holds: those of its runs,
\* the common_rPr of its groups, and the absent one
HeldRprs ==
    {p_node[k].rPr : k \in {m \in 1..Len(p_node) : p_node[m].kind = "r"}}
    \cup {Segments[k].common_rPr :
            k \in {m \in 1..Len(Segments) : Segments[m].type = "text_run_group"}}
    \cup {None}

\* C30: _compare_rpr_elements is reflexive, symmetric and transitive, an
\* absent set is related to every set that is empty once normalized, and
\* every source run of a text_run_group compares equal to the group's
\* common_rPr and to every other run of the group.
C30_Equivalence ==
    ppc = "segmented" =>
        /\ \A a \in HeldRprs : _compare_rpr_elements(a, a)
        /\ \A a, b \in HeldRprs : _compare_rpr_elements(a, b) => _compare_rpr_elements(b, a)
        /\ \A a, b, c \in HeldRprs :
              (_compare_rpr_elements(a, b) /\ _compare_rpr_elements(b, c))
                 => _compare_rpr_elements(a, c)
        /\ \A a \in HeldRprs : Visible(a) = {} => _compare_rpr_elements(None, a)
        /\ \A k \in 1..Len(Segments) :
              Segments[k].type = "text_run_group" =>
                  \A m, n \in 1..Len(Segments[k].original_runs) :
                      /\ _compare_rpr_elements(Segments[k].original_runs[m].rPr,
                                               Segments[k].common_rPr)
                      /\ _compare_rpr_elements(Segments[k].original_runs[m].rPr,
                                               Segments[k].original_runs[n].rPr)

\* a group of three runs of which the second differs, as an element, from
\* the first and from the third
C30_Witness ==
    /\ ppc = "segmented"
    /\ \E k \in 1..Len(Segments) :
          /\ Segments[k].type = "text_run_group"
          /\ Len(Segments[k].original_runs) = 3
          /\ Segments[k].original_runs[2].rPr # Segments[k].original_runs[1].rPr
          /\ Segments[k].original_runs[2].rPr # Segments[k].original_runs[3].rPr
          /\ ~IsNone(Segments[k].original_runs[2].rPr)

(***************************************************************************)
(* The placeholder count of an accepted response                           *)
(***************************************************************************)

\* C28: a call returns a text other than the original blob only if that text
\* holds the placeholder token, verbatim, as many times as the blob; a
\* response with another count of verbatim tokens is never accepted.
C28_ExactPlaceholderCount ==
    \A i \in 1..Len(tasks) :
        LET t == tasks[i]
            blob == para_data_list[i]
        IN  /\ (t.pc = "returned" /\ Val(t.ret) # blob)
                  => Count(Val(t.ret), PLACEHOLDER_TAG) = Count(blob, PLACEHOLDER_TAG)
            /\ t.accepted # None
                  => Count(Val(t.accepted), PLACEHOLDER_TAG) = Count(blob, PLACEHOLDER_TAG)

(***************************************************************************)
(* Protocol tokens in the rebuilt paragraph                                *)
(***************************************************************************)

\* the texts the rebuilt paragraph shows: the w:t of its runs and the w:t of
\* the inner runs of its hyperlinks
EmittedTexts ==
    {Val(RebuiltBody[k].t) :
        k \in {m \in 1..Len(RebuiltBody) : RebuiltBody[m].kind = "r" /\ ~IsNone(RebuiltBody[m].t)}}
    \cup UNION {{Val(RebuiltBody[k].runs[n].t) :
                    n \in {m \in 1..Len(RebuiltBody[k].runs) : ~IsNone(RebuiltBody[k].runs[m].t)}} :
                k \in {m \in 1..Len(RebuiltBody) : RebuiltBody[m].kind = "hyperlink"}}

\* C27: when the translated blob has as many separator tokens and as many
\* placeholder tokens as the original blob, in whatever order, no text the
\* rebuilt paragraph shows holds either token.
C27_NoTokenInText ==
    (/\ ppc = "reconstructed"
     /\ ~IsNone(Val(translated))
     /\ Count(Val(Val(translated)), SEGMENT_SEPARATOR) = Count(Blob, SEGMENT_SEPARATOR)
     /\ Count(Val(Val(translated)), PLACEHOLDER_TAG) = Count(Blob, PLACEHOLDER_TAG))
        => \A text \in EmittedTexts :
              Count(text, SEGMENT_SEPARATOR) = 0 /\ Count(text, PLACEHOLDER_TAG) = 0

(***************************************************************************)
(* process_xml_part on parts with text boxes                               *)
(***************************************************************************)

NestParas ==
    PartParas
    \cup {<<TextBoxRun(<<Run(None, Some(<<"a">>))>>)>>,
          <<TextBoxRun(<<Run(None, Some(<<"a">>))>>), Run(None, Some(<<"a">>))>>}

\* the parts: some paragraphs, with or without a text box, then possibly a w:sectPr
NestParts ==
    LET paras == UNION {[1..n -> NestParas] : n \in 1..MaxParas}
        body(ps) == [k \in 1..Len(ps) |-> BodyNode(k, "p", ps[k])]
    IN  {body(ps) : ps \in paras}
        \cup {Append(body(ps), BodyNode(Len(ps) + 1, "sectPr", <<>>)) : ps \in paras}

NestInit ==
    /\ StyleIdle
    /\ ParaIdle
    /\ BatchIdle
    /\ MatIdle
    /\ CmpIdle
    /\ xml_content \in NestParts \cup {Malformed}
    /\ root = <<>>
    /\ all_p_data = <<>>
    /\ translated_full_texts = None
    /\ loop_i = 0
    /\ returned = None
    /\ part_pc = "called"

NestSpec == NestInit /\ [][PartNext]_vars

\* the children of a paragraph with the content of their text boxes left out
Unboxed(kids) ==
    [k \in 1..Len(kids) |->
        IF HasTextBox(kids[k]) THEN [kids[k] EXCEPT !.txbx = <<>>] ELSE kids[k]]

\* C26: after a normal return every paragraph handed to translate_function
\* is in the returned tree as its rebuilt version; so is a paragraph of a
\* text box inside a drawing run of another translated paragraph.
C26_NestedRebuilt ==
    (part_pc = "done" /\ ~IsNone(translated_full_texts)) =>
        \A e \in 1..Len(all_p_data) :
            LET entry == all_p_data[e]
                r == reconstruct_translated_paragraph(entry.data, Val(translated_full_texts)[e])
            IN  IF entry._parent_node = RootParent
                THEN LET node == Val(returned)[entry._index_in_parent + 1]
                     IN  /\ node.id = 0 - entry.p_id
                         /\ Unboxed(node.kids) = Unboxed(r.node)
                ELSE LET outer == Val(returned)[IndexOfId(xml_content, entry._parent_node[1])]
                     IN  \E m \in 1..Len(outer.kids) :
                            /\ HasTextBox(outer.kids[m])
                            /\ outer.kids[m].txbx = r.node

\* C29: replacing keeps the shape of the tree: the parent has as many
\* children as before, a new node is at the index of the node it replaces,
\* the other children are the nodes they were, in their order, and the index
\* recorded for a paragraph not yet replaced is still its index.
C29_ShapeKept ==
    (part_pc \in {"extracted", "rebuilding", "done", "failed"} /\ xml_content # Malformed) =>
        /\ Len(root) = Len(xml_content)
        /\ \A k \in 1..Len(xml_content) :
              \/ root[k] = xml_content[k]
              \/ /\ root[k].id = 0 - xml_content[k].id
                 /\ \E e \in 1..Len(all_p_data) :
                       /\ e < loop_i
                       /\ all_p_data[e]._parent_node = RootParent
                       /\ all_p_data[e].p_id = xml_content[k].id
                       /\ all_p_data[e]._index_in_parent = k - 1
        /\ \A e \in 1..Len(all_p_data) :
              (e >= loop_i /\ all_p_data[e]._parent_node = RootParent)
                 => root[all_p_data[e]._index_in_parent + 1].id = all_p_data[e].p_id

\* the first of two paragraphs replaced, the second, which has a text box,
\* and the w:sectPr after it still the nodes they were
C29_Witness ==
    /\ part_pc = "rebuilding"
    /\ Len(root) = 3
    /\ loop_i = 2
    /\ root[1].id < 0
    /\ root[2] = xml_content[2]
    /\ \E j \in 1..Len(root[2].kids) : HasTextBox(root[2].kids[j])
    /\ root[3] = xml_content[3]

====
